---- MODULE Spec2Model ----
(***************************************************************************)
(* Face-Perception noise synthesis: the exposure convergence loops of      *)
(* noise_generators_camera.py, the sensor transforms, the mask geometry    *)
(* and compositing of noise_generators_environment.py and the per-subject  *)
(* generation of noise_faces.py.                                           *)
(*                                                                         *)
(* Numbers.  Floating-point values of the program are fixed-point integers *)
(* with One standing for 1.0.  gamma lives on a grid of 1/GammaDen, so the *)
(* nudge .25*random.random(), a value of [0, .25), is one of the grid      *)
(* values 0 .. GammaDen/4 - 1.                                             *)
(*                                                                         *)
(* Names.  noise_faces.py and noise_generators_environment.py import the   *)
(* sensor transforms as poor_focus, dark_noise and shot_noise, the camera  *)
(* module of src/ names the same functions blur, gaussian and poisson.     *)
(* The model reads both sets of names as the functions of the camera       *)
(* module, and noise_image_write of noise_helper as image_write of the     *)
(* same file.  A local name that a path of a function never assigns        *)
(* (desired, floor, ceiling, scale_x, pts, pipe_angle) is modelled as      *)
(* Python runs it: the read raises NameError.  noise_helper reads the      *)
(* module global person_data, which the file never binds: the model        *)
(* follows both a process where it is unbound and one where it is bound.   *)
(***************************************************************************)
EXTENDS Integers, Sequences, FiniteSets, TLC

VARIABLES
    \* ---- one call of under_expose / over_expose
    fn,               \* "under_expose" or "over_expose"
    image,            \* the input image: pixel values 0..255
    gammaArg,         \* the gamma parameter: None or a grid value
    environment_flag, \* the environment_flag parameter
    gamma,            \* local gamma (grid units), Unbound before assignment
    desired,          \* local desired (fixed point) or Unbound
    floor,            \* local floor (fixed point) or Unbound
    ceiling,          \* local ceiling (fixed point) or Unbound
    new_gamma,        \* local new_gamma: mean luminance of image_noise
    image_noise,      \* local image_noise: the remapped image
    lastNudge,        \* the last value of .25*random.random() (grid units)
    remapSource,      \* the image the last adjust_gamma call was given
    remapGamma,       \* the gamma the last adjust_gamma call was given
    pc,               \* "entry", "loop", "returned", "NameError", "ValueError"
    \* ---- calls of one sensor transform on one input
    sfn,              \* "blur", "gaussian", "poisson", "salt_and_pepper"
    simage,           \* the input image (one row of gray pixels)
    sarg,             \* the optional parameter: None or the explicit value
    scalls,           \* the calls made so far: [param, out] each
    \* ---- one call of an environment effect
    efn,              \* the effect: "point_source", ..., "pipe_shadow"
    hh, ww,           \* image.shape[:2]
    elevel,           \* the input image: uniform gray of this level, once read
    eparam,           \* scale / streak_angle / pipe_angle: None or a value
    geo,              \* the geometry locals drawn by the call
    ingr,             \* the ingredient pixels img_over, img_under, img_blur
    col,              \* the image column observed in the result
    result,           \* the returned image on that column: row -> pixel
    epc,              \* "call", "masks", "returned" or the exception raised
    \* ---- one call of noise_helper on a file tree
    im_dir,           \* parameter im_dir: the subject directory
    write_loc,        \* parameter write_loc
    camera_flag,      \* parameter camera_flag
    env_flag,         \* parameter environment_flag
    person_data,      \* the module global person_data, Unset when unbound
    dirs,             \* the directories of the file tree
    fs,               \* the files of the file tree: <<dir, name>> -> content
    cwd,              \* the working directory of the process
    noises,           \* local noises: the enabled pool
    loc_dir,          \* local loc_dir
    write_dir,        \* local write_dir
    images,           \* local images: the result of glob("*.png")
    idx,              \* position of the for loop in images
    nh_image,         \* local image: the content read from im_path
    noisify,          \* local noisify: "none" or a function name
    im_noisy,         \* local im_noisy
    opened,           \* the files opened so far, in order
    drawn,            \* the values of random.choice so far, in order
    applied,          \* the noise calls made so far: [fn, input, im]
    written,          \* the files written so far: [path, im]
    gpc,              \* "call", "loop", "apply", "write", "done", "no_return"
                      \* or the exception raised
    \* ---- calls of reset_noises on the file tree
    write_root,       \* parameter write_root
    proj_root,        \* local proj_root
    directories,      \* local directories: sorted(glob("*/"))
    rperson,          \* position of the loop over directories
    rnoise,           \* position of the loop over noises
    rbefore,          \* the file tree at the start of the current call
    runs,             \* the calls started so far
    rpc,              \* "call", "loop", "done" or the exception raised
    \* ---- one call of noisify_data with its process pool
    nd,               \* the parameters and locals of noisify_data
    globals,          \* the module globals data and person_data
    queue,            \* the task queue of the pool, oldest first
    workers,          \* the worker processes of the pool
    tasks,            \* what became of the task of each subject
    nbefore,          \* the file tree at the start of the call
    npc               \* "call", "dispatch", "returned" or the exception

exVars == <<fn, image, gammaArg, environment_flag, gamma, desired, floor,
            ceiling, new_gamma, image_noise, lastNudge, remapSource,
            remapGamma, pc>>

snVars == <<sfn, simage, sarg, scalls>>

envVars == <<efn, hh, ww, elevel, eparam, geo, ingr, col, result, epc>>

genVars == <<im_dir, write_loc, camera_flag, env_flag, person_data, dirs, fs,
             cwd, noises, loc_dir, write_dir, images, idx, nh_image, noisify,
             im_noisy, opened, drawn, applied, written, gpc>>

\* the locals of noise_helper: genVars without the file tree
helperVars == <<im_dir, write_loc, camera_flag, env_flag, person_data, noises,
                loc_dir, write_dir, images, idx, nh_image, noisify, im_noisy,
                opened, drawn, applied, written, gpc>>

rsVars == <<write_root, proj_root, directories, rperson, rnoise, rbefore,
            runs, rpc>>

poolVars == <<nd, globals, queue, workers, tasks, nbefore, npc>>

vars == <<exVars, snVars, envVars, genVars, rsVars, poolVars>>

\* what the actions of one component leave alone
notEx == <<snVars, envVars, genVars, rsVars, poolVars>>
notSn == <<exVars, envVars, genVars, rsVars, poolVars>>
notEnv == <<exVars, snVars, genVars, rsVars, poolVars>>
notGen == <<exVars, snVars, envVars, rsVars, poolVars>>
notRs == <<exVars, snVars, envVars, helperVars, poolVars>>
notPool == <<exVars, snVars, envVars, helperVars, rsVars>>

-----------------------------------------------------------------------------
(* Bounds of the model                                                     *)

\* gamma grid: GammaDen = 2^RootDepth steps per unit
RootDepth == 4
\* pixels per image in the exposure model
NPix == 2
\* gray levels 0, 255/MaxLevel, ..., 255 the input pixels are drawn from
MaxLevel == 4
\* the loops are followed while gamma stays at or below MaxGamma
MaxGamma == 7
\* a random.randint(lo, hi) is drawn at DrawSteps + 1 evenly spread values
DrawSteps == 1

-----------------------------------------------------------------------------
(* Fixed-point arithmetic                                                  *)

One == 2 ^ 14
GammaDen == 2 ^ RootDepth
MaxPix == 255
\* Python's None and "no value assigned yet": integers outside every range
\* of the model, so that they compare with the numbers they stand in for
None == 0 - 2 ^ 20
Unbound == 0 - 2 ^ 21

Min(a, b) == IF a < b THEN a ELSE b
Max(a, b) == IF a > b THEN a ELSE b

\* product of two fixed-point numbers
Mul(a, b) == (a * b) \div One

RECURSIVE ISqrtSearch(_, _, _)
ISqrtSearch(n, lo, hi) ==
    IF lo >= hi THEN lo
    ELSE LET mid == (lo + hi + 1) \div 2
         IN  IF mid * mid <= n THEN ISqrtSearch(n, mid, hi)
             ELSE ISqrtSearch(n, lo, mid - 1)

\* square root of a fixed-point number of [0, 1]
Sqrt(x) == ISqrtSearch(x * One, 0, One)

RECURSIVE Root(_, _)
\* x ^ (1 / 2^d)
Root(x, d) == IF d = 0 THEN x ELSE Root(Sqrt(x), d - 1)

RECURSIVE PowInt(_, _)
\* x ^ k for a natural k, by squaring
PowInt(x, k) ==
    IF k = 0 THEN One
    ELSE LET h == PowInt(x, k \div 2)
         IN  IF k % 2 = 0 THEN Mul(h, h) ELSE Mul(Mul(h, h), x)

RECURSIVE ExpSeries(_, _, _, _)
ExpSeries(z, term, n, acc) ==
    IF term = 0 THEN acc
    ELSE LET next == (term * z) \div (One * n)
         IN  ExpSeries(z, next, n + 1, acc + next)

\* math.exp of a fixed-point z of [-1, 2]
Exp(z) == ExpSeries(z, One, 1, One)

RECURSIVE SumSeq(_)
SumSeq(s) == IF s = <<>> THEN 0 ELSE Head(s) + SumSeq(Tail(s))

-----------------------------------------------------------------------------
(* Library functions the exposure transforms call                          *)

\* skimage.img_as_float(image).mean(): the mean normalized luminance
MeanLuminance(img) == (SumSeq(img) * One) \div (Len(img) * MaxPix)

\* the uint8 lookup table of skimage.exposure.adjust_gamma at one pixel:
\* rint(255 * (p/255) ^ gamma), gamma = g / GammaDen >= 0
AdjustGammaPixel(p, g) ==
    IF g = 0 THEN MaxPix
    ELSE IF p = 0 THEN 0
    ELSE IF p = MaxPix THEN MaxPix
    ELSE LET x == (p * One) \div MaxPix
             y == PowInt(Root(x, RootDepth), g)
         IN  Min(MaxPix, (MaxPix * y + One \div 2) \div One)

\* the lookup tables of the gammas the loops are followed through
GammaLut ==
    [g \in 0..(MaxGamma * GammaDen) |->
        [p \in {(MaxPix * i) \div MaxLevel : i \in 0..MaxLevel} |->
            AdjustGammaPixel(p, g)]]

\* skimage.exposure.adjust_gamma(np.asarray(image), gamma), gamma >= 0
adjust_gamma(img, g) ==
    [i \in 1..Len(img) |->
        IF g \in DOMAIN GammaLut /\ img[i] \in DOMAIN GammaLut[g]
        THEN GammaLut[g][img[i]]
        ELSE AdjustGammaPixel(img[i], g)]

\* a float gamma on the grid; a positive float stays positive
ToGrid(x) ==
    LET r == (x * GammaDen + One \div 2) \div One
    IN  IF x > 0 THEN Max(1, r) ELSE r

-----------------------------------------------------------------------------
(* under_expose and over_expose                                            *)

Levels == {(MaxPix * i) \div MaxLevel : i \in 0..MaxLevel}
\* the input images; the mean and the per-pixel remap do not depend on the
\* order of the pixels, so the images are taken up to that order
Images ==
    {img \in [1..NPix -> Levels] :
        \A i \in 1..(NPix - 1) : img[i] <= img[i + 1]}
\* explicit gamma values a caller passes: 0.5 and 2.0
GammaArgs == {GammaDen \div 2, 2 * GammaDen}
\* values of .25*random.random() on the grid
Nudges == 0..(GammaDen \div 4 - 1)

Frac(n, d) == (n * One) \div d

\* under_expose lines 200-216: the locals after the defaults branch
UnderDefaults(img, env) ==
    LET original_gamma == MeanLuminance(img)
        d == IF env THEN (original_gamma * 8) \div 10 ELSE Frac(15, 100)
        f == IF env THEN Frac(1, 10) ELSE Frac(3, 100)
    IN  [desired |-> d, floor |-> f, ceiling |-> Unbound,
         gamma |-> ToGrid(Exp(One + original_gamma - d))]

\* over_expose lines 279-280: the seed, .1 when not positive
OverSeed(original_gamma, d) ==
    LET g == Exp(d - original_gamma) - One
    IN  IF g <= 0 THEN ToGrid(Frac(1, 10)) ELSE ToGrid(g)

\* over_expose lines 263-280: the locals after the defaults branch; the
\* standalone branch stores .9 in floor and leaves ceiling unassigned
OverDefaults(img, env) ==
    LET original_gamma == MeanLuminance(img)
        d == IF env THEN (original_gamma * 12) \div 10 ELSE Frac(85, 100)
    IN  [desired |-> d,
         floor |-> IF env THEN Unbound ELSE Frac(9, 10),
         ceiling |-> IF env THEN Frac(75, 100) ELSE Unbound,
         gamma |-> OverSeed(original_gamma, d)]

Defaults(f, img, env) ==
    IF f = "under_expose" THEN UnderDefaults(img, env) ELSE OverDefaults(img, env)

\* the names the loop condition of line 224 / 288 reads, in evaluation
\* order with the short circuit of "or"
CondReads(f, ng, d) ==
    IF d = Unbound THEN <<"desired">>
    ELSE IF f = "under_expose"
         THEN IF ng > d THEN <<"desired">> ELSE <<"desired", "floor">>
         ELSE IF ng < d THEN <<"desired">> ELSE <<"desired", "ceiling">>

Local(name) ==
    CASE name = "desired" -> desired
      [] name = "floor" -> floor
      [] name = "ceiling" -> ceiling

\* the loop condition reads a local that was never assigned
CondRaises ==
    \E i \in 1..Len(CondReads(fn, new_gamma, desired)) :
        Local(CondReads(fn, new_gamma, desired)[i]) = Unbound

\* under_expose line 224: new_gamma > desired or new_gamma < floor
UnderCond(ng, d, f) == ng > d \/ ng < f
\* (mutant) the ceiling test dropped from the loop condition
OverCondNoCeiling(ng, d, c) == ng < d
\* over_expose line 288: new_gamma < desired or new_gamma > ceiling
OverCond(ng, d, c) == ng < d \/ ng > c

LoopCond ==
    IF fn = "under_expose" THEN UnderCond(new_gamma, desired, floor)
    ELSE OverCond(new_gamma, desired, ceiling)

\* under_expose lines 227-232: the direction of the nudge
UnderNudge(ng, d, f, g, r) ==
    IF ng < f THEN g - r ELSE IF ng > d THEN g + r ELSE g
\* over_expose lines 291-296
OverNudge(ng, d, c, g, r) ==
    IF ng < d THEN g - r ELSE IF ng > c THEN g + r ELSE g

Nudged(r) ==
    IF fn = "under_expose" THEN UnderNudge(new_gamma, desired, floor, gamma, r)
    ELSE OverNudge(new_gamma, desired, ceiling, gamma, r)

\* lines 220-221 / 235-236: remap the input image with gamma g and take the
\* mean; adjust_gamma raises ValueError for a negative gamma
Remap(g, nextpc) ==
    /\ remapSource' = image
    /\ remapGamma' = g
    /\ IF g < 0
       THEN /\ pc' = "ValueError"
            /\ UNCHANGED <<image_noise, new_gamma>>
       ELSE /\ image_noise' = adjust_gamma(image, g)
            /\ new_gamma' = MeanLuminance(adjust_gamma(image, g))
            /\ pc' = nextpc

ExInit ==
    /\ fn \in {"under_expose", "over_expose"}
    /\ image \in Images
    /\ gammaArg \in {None} \cup GammaArgs
    /\ environment_flag \in BOOLEAN
    /\ gamma = Unbound /\ desired = Unbound /\ floor = Unbound
    /\ ceiling = Unbound /\ new_gamma = Unbound /\ image_noise = <<>>
    /\ lastNudge = 0 /\ remapSource = <<>> /\ remapGamma = Unbound
    /\ pc = "entry"

\* no exposure call in progress
ExIdle ==
    /\ fn = "none" /\ image = <<>> /\ gammaArg = None
    /\ environment_flag = FALSE
    /\ gamma = Unbound /\ desired = Unbound /\ floor = Unbound
    /\ ceiling = Unbound /\ new_gamma = Unbound /\ image_noise = <<>>
    /\ lastNudge = 0 /\ remapSource = <<>> /\ remapGamma = Unbound
    /\ pc = "idle"

\* lines 199-221 / 262-285: defaults when gamma is None, first remap
Enter ==
    /\ pc = "entry"
    /\ LET loc == IF gammaArg = None
                  THEN Defaults(fn, image, environment_flag)
                  ELSE [desired |-> Unbound, floor |-> Unbound,
                        ceiling |-> Unbound, gamma |-> gammaArg]
       IN  /\ desired' = loc.desired
           /\ floor' = loc.floor
           /\ ceiling' = loc.ceiling
           /\ gamma' = loc.gamma
           /\ Remap(loc.gamma, "loop")
    /\ UNCHANGED <<fn, image, gammaArg, environment_flag, lastNudge>>
    /\ UNCHANGED notEx

\* the loop condition reads an unassigned local: NameError
RaiseNameError ==
    /\ pc = "loop"
    /\ CondRaises
    /\ pc' = "NameError"
    /\ UNCHANGED <<fn, image, gammaArg, environment_flag, gamma, desired,
                   floor, ceiling, new_gamma, image_noise, lastNudge,
                   remapSource, remapGamma>>
    /\ UNCHANGED notEx

\* lines 224-236 / 288-300: one iteration of the loop
Iterate ==
    /\ pc = "loop"
    /\ ~CondRaises
    /\ LoopCond
    /\ \E r \in Nudges :
          /\ Nudged(r) <= MaxGamma * GammaDen
          /\ lastNudge' = r
          /\ gamma' = Nudged(r)
          /\ Remap(Nudged(r), "loop")
    /\ UNCHANGED <<fn, image, gammaArg, environment_flag, desired, floor,
                   ceiling>>
    /\ UNCHANGED notEx

\* lines 239 / 303: the loop condition is false, return image_noise
Return ==
    /\ pc = "loop"
    /\ ~CondRaises
    /\ ~LoopCond
    /\ pc' = "returned"
    /\ UNCHANGED <<fn, image, gammaArg, environment_flag, gamma, desired,
                   floor, ceiling, new_gamma, image_noise, lastNudge,
                   remapSource, remapGamma>>
    /\ UNCHANGED notEx

ExNext == Enter \/ RaiseNameError \/ Iterate \/ Return


-----------------------------------------------------------------------------
(* The sensor transforms: blur, gaussian, poisson, salt_and_pepper         *)

\* exp(-z) for a fixed-point z >= 0
RECURSIVE ExpNeg(_)
ExpNeg(z) ==
    IF z > One THEN Mul(ExpNeg(z \div 2), ExpNeg(z - z \div 2))
    ELSE (One * One) \div Exp(z)

\* kernel radius of skimage.filters.gaussian: int(truncate * sigma + 0.5)
\* with truncate = 3.5
KernelRadius(sigma) == (7 * sigma + 1) \div 2

\* the weight exp(-k^2 / (2 sigma^2)) of the Gaussian kernel
GaussWeight(k, sigma) == ExpNeg((k * k * One) \div (2 * sigma * sigma))

RECURSIVE SumTo(_, _, _)
\* the sum of F(lo), ..., F(hi)
SumTo(F(_), lo, hi) == IF lo > hi THEN 0 ELSE F(lo) + SumTo(F, lo + 1, hi)

\* index i clamped into the row: the filter's boundary mode "nearest"
Nearest(i, n) == Max(1, Min(n, i))

\* blur lines 45-46: the Gaussian filter along the row, then np.uint8(x*255)
GaussianFilter(img, sigma) ==
    LET R == KernelRadius(sigma)
        W(k) == GaussWeight(IF k < 0 THEN 0 - k ELSE k, sigma)
        total == SumTo(W, 0 - R, R)
    IN  [i \in 1..Len(img) |->
            LET T(k) == W(k) * img[Nearest(i + k, Len(img))]
            IN  SumTo(T, 0 - R, R) \div total]

Clip(v) == Max(0, Min(MaxPix, v))

\* the noise samples skimage.util.random_noise(seed=None) draws at one
\* pixel, in gray levels: 0 and one standard deviation either way
\*   gaussian: sqrt(var), var = n / d
GaussianSamples(n, d) ==
    LET sd == (MaxPix * Sqrt(Frac(n, d))) \div One
    IN  {0 - sd, 0, sd}
\*   poisson: the shot noise grows with the pixel value, sqrt(p) levels
PoissonSamples(p) ==
    LET sd == ISqrtSearch(p, 0, MaxPix)
    IN  {0 - sd, 0, sd}
\*   s&p: a pixel is kept, or replaced by 0 (pepper) or 255 (salt)
SaltPepperSamples == {"keep", "pepper", "salt"}

SaltPepperPixel(p, c) ==
    IF c = "keep" THEN p ELSE IF c = "salt" THEN MaxPix ELSE 0

\* the default draws of lines 42, 83 and 169
SigmaDefaults == 3..5
VarDefaults == 1..3
GrainDefaults == 3..6

\* explicit values a caller passes: sigma = 4, var = .02, grain = .004
SensorArgs(f) ==
    CASE f = "blur" -> {4}
      [] f = "gaussian" -> {2}
      [] f = "poisson" -> {}
      [] f = "salt_and_pepper" -> {4}

\* the inputs: two neighbouring gray pixels
SensorImages == {<<a, b>> : a \in Levels, b \in Levels}

\* (mutant) the parameter is drawn even when the caller supplies it
ParamUsedAlwaysDrawn(arg, draw) == draw
\* lines 41-42, 82-83, 168-169: the supplied value, else the random draw
ParamUsed(arg, draw) == IF arg = None THEN draw ELSE arg

SnInit ==
    /\ sfn \in {"blur", "gaussian", "poisson", "salt_and_pepper"}
    /\ simage \in SensorImages
    /\ sarg \in {None} \cup SensorArgs(sfn)
    /\ scalls = <<>>

SnIdle ==
    /\ sfn = "none" /\ simage = <<>> /\ sarg = None /\ scalls = <<>>

\* the model follows two calls on the same input
CallAllowed(f) == sfn = f /\ Len(scalls) < 2

Record(param, out) ==
    /\ scalls' = Append(scalls, [param |-> param, out |-> out])
    /\ UNCHANGED <<sfn, simage, sarg>>
    /\ UNCHANGED notSn

\* blur lines 41-49
CallBlur ==
    /\ CallAllowed("blur")
    /\ \E draw \in SigmaDefaults :
          LET sigma == ParamUsed(sarg, draw)
          IN  Record(sigma, GaussianFilter(simage, sigma))

\* gaussian lines 82-97, on a gray image
CallGaussian ==
    /\ CallAllowed("gaussian")
    /\ \E draw \in VarDefaults :
          LET var == ParamUsed(sarg, draw)
          IN  \E noise \in [1..Len(simage) -> GaussianSamples(var, 100)] :
                 Record(var, [i \in 1..Len(simage) |->
                                 Clip(simage[i] + noise[i])])

\* poisson lines 126-138: no parameter
CallPoisson ==
    /\ CallAllowed("poisson")
    /\ \E noise \in [1..Len(simage) ->
                        UNION {PoissonSamples(simage[i]) :
                                  i \in 1..Len(simage)}] :
          /\ \A i \in 1..Len(simage) : noise[i] \in PoissonSamples(simage[i])
          /\ Record(None, [i \in 1..Len(simage) |->
                               Clip(simage[i] + noise[i])])

\* salt_and_pepper lines 168-176
CallSaltAndPepper ==
    /\ CallAllowed("salt_and_pepper")
    /\ \E draw \in GrainDefaults :
          LET grain_amount == ParamUsed(sarg, draw)
          IN  \E c \in [1..Len(simage) -> SaltPepperSamples] :
                 Record(grain_amount,
                        [i \in 1..Len(simage) |->
                            SaltPepperPixel(simage[i], c[i])])

SnNext == CallBlur \/ CallGaussian \/ CallPoisson \/ CallSaltAndPepper

-----------------------------------------------------------------------------
(* The environment effects: geometry and masks                             *)

\* Python's int() of the rational n / d: truncation toward zero
IntTrunc(n, d) == IF n >= 0 THEN n \div d ELSE 0 - ((0 - n) \div d)

\* the values of random.randint(lo, hi) the model follows
Draws(lo, hi) == {lo + ((hi - lo) * i) \div DrawSteps : i \in 0..DrawSteps}

\* random.randint(lo, hi) raises ValueError for an empty range
EmptyRange(lo, hi) == lo > hi

\* image sizes <<hh, ww>>
EnvSizes == {<<24, 20>>, <<100, 100>>}
\* angles of random.randint(0, 360) whose rotation is exact in integers
Angles == {0, 45, 90, 135}
\* explicit parameters a caller passes: scale .2; angles 45 and 200
ScaleArgs == {20}
AngleArgs == {45, 200}

PointEffects == {"point_source", "point_shadow"}
StreakEffects == {"streak_source", "streak_shadow"}
PipeEffects == {"pipe_source", "pipe_shadow"}
SourceEffects == {"point_source", "streak_source", "pipe_source"}
Effects == PointEffects \cup StreakEffects \cup PipeEffects

\* 8-bit bitwise operations of cv.bitwise_and / _or / _xor / _not
RECURSIVE BitOp(_, _, _, _)
BitOp(op(_, _), a, b, n) ==
    IF n = 0 THEN 0
    ELSE op(a % 2, b % 2) + 2 * BitOp(op, a \div 2, b \div 2, n - 1)

\* (the cases with an operand 0 or 255 are decided without the bit loop)
BitAnd(a, b) ==
    IF a = 0 \/ b = 0 THEN 0
    ELSE IF b = MaxPix THEN a
    ELSE IF a = MaxPix THEN b
    ELSE LET op(p, q) == p * q IN BitOp(op, a, b, 8)
BitOr(a, b) ==
    IF a = 0 THEN b
    ELSE IF b = 0 THEN a
    ELSE IF a = MaxPix \/ b = MaxPix THEN MaxPix
    ELSE LET op(p, q) == Max(p, q) IN BitOp(op, a, b, 8)
BitXor(a, b) ==
    IF a = 0 THEN b
    ELSE IF b = 0 THEN a
    ELSE IF a = b THEN 0
    ELSE LET op(p, q) == (p + q) % 2 IN BitOp(op, a, b, 8)
BitNot(a) == MaxPix - a
\* cv.subtract: saturating
Subtract(a, b) == Max(0, a - b)
\* numpy uint8 addition: modulo 256
AddU8(a, b) == (a + b) % (MaxPix + 1)

White(b) == IF b THEN MaxPix ELSE 0

\* cv.ellipse(mask, (xc, yc), (rx, ry), angle, 0, 360, white, -1): the
\* filled ellipse, at pixel (x, y)
Ellipse(xc, yc, rx, ry, angle, x, y) ==
    LET dx == x - xc
        dy == y - yc
        \* the coordinates along the axes, times s (s = 1, or sqrt 2 at 45)
        u == CASE angle = 0 -> dx
               [] angle = 90 -> dy
               [] angle = 45 -> dx + dy
               [] angle = 135 -> dy - dx
        v == CASE angle = 0 -> dy
               [] angle = 90 -> 0 - dx
               [] angle = 45 -> dy - dx
               [] angle = 135 -> 0 - dx - dy
        s2 == IF angle \in {45, 135} THEN 2 ELSE 1
    IN  White(IF rx = 0 \/ ry = 0
              THEN /\ u * u <= s2 * rx * rx
                   /\ v * v <= s2 * ry * ry
              ELSE u * u * ry * ry + v * v * rx * rx
                      <= s2 * rx * rx * ry * ry)

\* the row of the edge from (0, l) to (ww, r) at column x
EdgeY(l, r, x) == l + (2 * (r - l) * x + ww) \div (2 * ww)

\* cv.drawContours(mask, [pts], -1, white, -1) for the quadrilateral with
\* the upper edge (0, tl)-(ww, tr) and the lower edge (0, bl)-(ww, br): the
\* filled polygon with its boundary, at pixel (x, y)
Quad(tl, tr, bl, br, x, y) ==
    LET a == EdgeY(tl, tr, x)
        b == EdgeY(bl, br, x)
    IN  White(Min(a, b) <= y /\ y <= Max(a, b))

\* the blend offset .01*np.minimum(hh, ww) added to a cut, then int()
BlendBelow(cut) == IntTrunc(100 * cut + Min(hh, ww), 100)
BlendAbove(cut) == IntTrunc(100 * cut - Min(hh, ww), 100)

\* lines 58-59: int(radius * 1.05)
RadiusBlend(r) == IntTrunc(105 * r, 100)

\* (mutant) the radius is taken from the longer side of the image
RadiusOfLongerSide(k) == (k * Max(hh, ww)) \div 100

\* lines 52-53: int(np.floor(scale * np.minimum(hh, ww))), scale = .01 * k
Radius(k) == (k * Min(hh, ww)) \div 100

\* ---- the masks of each effect at pixel (x, y), from the locals in geo

\* point_source / point_shadow lines 67-75
PointOverlay(g, x, y) ==
    Ellipse(g.xc, g.yc, g.radius_x, g.radius_y, g.angle, x, y)
PointMaskBlend(g, x, y) ==
    Ellipse(g.xc, g.yc, g.radius_blend_x, g.radius_blend_y, g.angle, x, y)

\* streak_source lines 201-220
StreakOverlay(g, x, y) == Quad(0, 0, g.left_cut, g.right_cut, x, y)
StreakMaskBlend(g, x, y) == Quad(0, 0, g.blend_left, g.blend_right, x, y)

\* pipe_source lines 351-385
PipeOverlay(g, x, y) ==
    Quad(g.top_left_cut, g.top_right_cut,
         g.bottom_left_cut, g.bottom_right_cut, x, y)
PipeMaskTop(g, x, y) == Quad(0, 0, g.top_left_cut, g.top_right_cut, x, y)
PipeMaskBottom(g, x, y) ==
    Quad(g.bottom_left_cut, g.bottom_right_cut, hh, hh, x, y)
PipeMaskBlendTop(g, x, y) ==
    Quad(0, 0, g.blend_top_left, g.blend_top_right, x, y)
PipeMaskBlendBottom(g, x, y) ==
    Quad(g.blend_bottom_left, g.blend_bottom_right, hh, hh, x, y)
PipeBlendTop(g, x, y) == BitXor(PipeMaskTop(g, x, y), PipeMaskBlendTop(g, x, y))
PipeBlendBottom(g, x, y) ==
    BitXor(PipeMaskBottom(g, x, y), PipeMaskBlendBottom(g, x, y))

\* the region masks the compositing of effect f uses, at pixel (x, y):
\* <<effect, background, transition band(s)>>
\* lines 69-75: overlay, cv.bitwise_not(mask_blend),
\* cv.subtract(mask_blend, overlay)
PointRegions(g, x, y) ==
    LET overlay == PointOverlay(g, x, y)
        mask_blend == PointMaskBlend(g, x, y)
    IN  <<overlay, BitNot(mask_blend), Subtract(mask_blend, overlay)>>

\* lines 213-220: mask, cv.bitwise_not(cv.bitwise_or(mask, mask_blend)),
\* cv.bitwise_xor(mask_blend, mask)
StreakRegions(g, x, y) ==
    LET mask == StreakOverlay(g, x, y)
        mask_blend == StreakMaskBlend(g, x, y)
    IN  <<mask, BitNot(BitOr(mask, mask_blend)), BitXor(mask_blend, mask)>>

\* lines 375-385: mask, the complement of the union of the bands and the
\* mask, and the two bands
PipeRegions(g, x, y) ==
    LET mask == PipeOverlay(g, x, y)
        blend_top == PipeBlendTop(g, x, y)
        blend_bottom == PipeBlendBottom(g, x, y)
    IN  <<mask, BitNot(BitOr(BitOr(blend_top, blend_bottom), mask)),
          blend_top, blend_bottom>>

RegionMasks(f, g, x, y) ==
    CASE f \in PointEffects -> PointRegions(g, x, y)
      [] f \in StreakEffects -> StreakRegions(g, x, y)
      [] f \in PipeEffects -> PipeRegions(g, x, y)

-----------------------------------------------------------------------------
(* The environment effects: the calls                                      *)

\* ---- under_expose / over_expose(image, environment_flag = True) as the
\* effects call it: the gammas the loop of lines 224-236 / 288-300 can pass
\* through from the seed, and those at which it returns

CondOf(f, ng, loc) ==
    IF f = "under_expose" THEN UnderCond(ng, loc.desired, loc.floor)
    ELSE OverCond(ng, loc.desired, loc.ceiling)

NudgeOf(f, ng, loc, g, r) ==
    IF f = "under_expose" THEN UnderNudge(ng, loc.desired, loc.floor, g, r)
    ELSE OverNudge(ng, loc.desired, loc.ceiling, g, r)

\* the loop condition reads a local of loc that was never assigned
ReadsUnbound(f, ng, loc) ==
    \E i \in 1..Len(CondReads(f, ng, loc.desired)) :
        loc[CondReads(f, ng, loc.desired)[i]] = Unbound

LoopSuccessors(f, img, loc, g) ==
    IF g < 0 THEN {}
    ELSE LET ng == MeanLuminance(adjust_gamma(img, g))
         IN  IF ReadsUnbound(f, ng, loc) THEN {}
             ELSE IF ~CondOf(f, ng, loc) THEN {}
             ELSE {h \in {NudgeOf(f, ng, loc, g, r) : r \in Nudges} :
                      h <= MaxGamma * GammaDen}

RECURSIVE LoopReach(_, _, _, _, _)
LoopReach(f, img, loc, seen, frontier) ==
    IF frontier = {} THEN seen
    ELSE LET new == UNION {LoopSuccessors(f, img, loc, g) : g \in frontier}
         IN  LoopReach(f, img, loc, seen \cup frontier,
                       new \ (seen \cup frontier))

\* the gammas at which a call with the defaults leaves the loop normally
ReturnGammas(f, img, loc) ==
    {h \in LoopReach(f, img, loc, {}, {loc.gamma}) :
        /\ h >= 0
        /\ ~ReadsUnbound(f, MeanLuminance(adjust_gamma(img, h)), loc)
        /\ ~CondOf(f, MeanLuminance(adjust_gamma(img, h)), loc)}

\* the images a call with the defaults can return
ExposeReturns(f, img, env) ==
    {adjust_gamma(img, g) : g \in ReturnGammas(f, img, Defaults(f, img, env))}

\* the ways a call with the defaults can end: "returned", ValueError of
\* adjust_gamma for a negative gamma, NameError of the loop condition
ExposeOutcomes(f, img, env) ==
    LET loc == Defaults(f, img, env)
        reach == LoopReach(f, img, loc, {}, {loc.gamma})
    IN  {o \in {"returned", "ValueError", "NameError"} :
            CASE o = "returned" -> ReturnGammas(f, img, loc) # {}
              [] o = "ValueError" -> \E h \in reach : h < 0
              [] o = "NameError" ->
                    \E h \in reach :
                       /\ h >= 0
                       /\ ReadsUnbound(f, MeanLuminance(adjust_gamma(img, h)),
                                       loc)}

\* the least and the greatest element of a set of numbers
Extremes(S) == {x \in S : (\A y \in S : x <= y) \/ (\A y \in S : x >= y)}

\* the pixel of such an image for a uniform gray input of level v; of the
\* pixels the random nudges can lead to, the darkest and the brightest are
\* followed
ReturnedPixels(f, v) ==
    Extremes({im[1] : im \in ExposeReturns(f, <<v, v>>, TRUE)})

\* poor_focus(., 2) of a uniform image, at one pixel
BlurredPixel(p) == GaussianFilter(<<p, p>>, 2)[1]

\* lines 78-80 (source effects) and 147-149 (shadow effects): the pixels
\* the three ingredients can have for the uniform input of level v
Ingredients(f, v) ==
    IF f \in SourceEffects
    THEN {[img_blur |-> BlurredPixel(b), img_over |-> o, img_under |-> u] :
             b \in ReturnedPixels("over_expose", v),
             o \in ReturnedPixels("over_expose", v),
             u \in {Clip(q + n) : q \in ReturnedPixels("under_expose", v),
                                  n \in GaussianSamples(1, 1000)}}
    ELSE {[img_blur |-> BlurredPixel(b), img_over |-> o, img_under |-> u] :
             b \in ReturnedPixels("under_expose", v),
             o \in UNION {{Clip(q + n) : n \in PoissonSamples(q)} :
                             q \in ReturnedPixels("over_expose", v)},
             u \in {Clip(q + n) : q \in ReturnedPixels("under_expose", v),
                                  n \in GaussianSamples(1, 100)}}

\* Ingredients, tabulated once for the levels of the model
IngredientTable ==
    [f \in Effects, v \in Levels |-> Ingredients(f, v)]

\* lines 83-85 / 228-230 / 393-396: the masked ingredients at pixel (x, y),
\* <<effect, bg, blend(s)>>
Addends(f, g, ing, x, y) ==
    LET m == RegionMasks(f, g, x, y)
        eff == IF f \in SourceEffects THEN ing.img_over ELSE ing.img_under
        bgi == IF f \in SourceEffects THEN ing.img_under ELSE ing.img_over
    IN  [i \in 1..Len(m) |->
            BitAnd(IF i = 1 THEN eff ELSE IF i = 2 THEN bgi
                   ELSE ing.img_blur, m[i])]

RECURSIVE SumU8(_)
\* lines 88 / 233 / 399: the sum of uint8 arrays
SumU8(a) == IF a = <<>> THEN 0 ELSE AddU8(Head(a), SumU8(Tail(a)))

\* the columns observed in the result
ProbeColumns(f, g) == IF f \in PointEffects THEN {g.xc} ELSE {0, ww - 1}

EnvArgs(f) == IF f \in PointEffects THEN ScaleArgs ELSE AngleArgs

NoGeo == [kind |-> "none"]
NoIngr == [img_blur |-> 0, img_over |-> 0, img_under |-> 0]

EnvInit ==
    /\ efn \in Effects
    /\ \E sz \in EnvSizes : hh = sz[1] /\ ww = sz[2]
    /\ elevel = 0
    /\ eparam \in {None} \cup EnvArgs(efn)
    /\ geo = NoGeo /\ ingr = NoIngr /\ col = 0 /\ result = <<>>
    /\ epc = "call"

\* image sides from one pixel up, around the sides where the integer parts
\* of the geometry change
GeoSides == {1, 3, 4, 19, 20, 24, 100}

\* a call of an effect on an image of any of these sides
GeoInit ==
    /\ efn \in Effects
    /\ hh \in GeoSides /\ ww \in GeoSides
    /\ elevel = 0
    /\ eparam \in {None} \cup EnvArgs(efn)
    /\ geo = NoGeo /\ ingr = NoIngr /\ col = 0 /\ result = <<>>
    /\ epc = "call"

EnvIdle ==
    /\ efn = "none" /\ hh = 0 /\ ww = 0 /\ elevel = 0 /\ eparam = None
    /\ geo = NoGeo /\ ingr = NoIngr /\ col = 0 /\ result = <<>>
    /\ epc = "idle"

\* the call ends with exception e before any mask exists
Raise(e) ==
    /\ epc' = e
    /\ UNCHANGED <<efn, hh, ww, elevel, eparam, geo, ingr, col, result>>
    /\ UNCHANGED notEnv

\* the geometry is drawn and the masks are built
Masks(g) ==
    /\ geo' = g
    /\ epc' = "masks"
    /\ UNCHANGED <<efn, hh, ww, elevel, eparam, ingr, col, result>>
    /\ UNCHANGED notEnv

\* lines 186-199 / 261-274 / 333-349: an explicit angle
AngleBranch ==
    IF eparam > 0 /\ eparam < 180 THEN Raise("ValueError")
    ELSE Raise("AssertionError")

\* point_source lines 44-75, point_shadow lines 113-144
PointEnter ==
    /\ epc = "call" /\ efn \in PointEffects
    /\ IF eparam # None
       THEN \* scale_x is never assigned: line 52 / 121
            Raise("NameError")
       ELSE \E kx \in Draws(5, 35), ky \in Draws(5, 35), a \in Angles :
               LET rx == Radius(kx)
                   ry == Radius(ky)
                   radius == Max(rx, ry)
               IN  \E yc \in Draws(radius, hh - radius),
                      xc \in Draws(radius, ww - radius) :
                       Masks([kind |-> "point", radius_x |-> rx,
                              radius_y |-> ry, angle |-> a,
                              radius_blend_x |-> RadiusBlend(rx),
                              radius_blend_y |-> RadiusBlend(ry),
                              xc |-> xc, yc |-> yc])

\* the random slice of lines 187-192 / 262-267
StreakCuts == Draws(IntTrunc(hh, 4), IntTrunc(3 * hh, 4))

\* streak_source lines 183-220
StreakSourceEnter ==
    /\ epc = "call" /\ efn = "streak_source"
    /\ IF eparam # None THEN AngleBranch
       ELSE \E l \in StreakCuts, r \in StreakCuts :
               Masks([kind |-> "streak", left_cut |-> l, right_cut |-> r,
                      blend_left |-> BlendBelow(l),
                      blend_right |-> BlendBelow(r)])

\* streak_shadow lines 258-284: pts is never assigned, line 284 reads it
StreakShadowEnter ==
    /\ epc = "call" /\ efn = "streak_shadow"
    /\ IF eparam # None THEN AngleBranch ELSE Raise("NameError")

\* the random pipe of lines 334-337 / 430-433
TopCuts == Draws(IntTrunc(hh, 10), IntTrunc(hh, 3))
BottomCuts == Draws(IntTrunc(11 * hh, 20), IntTrunc(2 * hh, 3))

\* pipe_source lines 330-385
PipeSourceEnter ==
    /\ epc = "call" /\ efn = "pipe_source"
    /\ IF eparam # None THEN AngleBranch
       ELSE \E tl \in TopCuts, tr \in TopCuts,
               bl \in BottomCuts, br \in BottomCuts :
               Masks([kind |-> "pipe",
                      top_left_cut |-> tl, top_right_cut |-> tr,
                      bottom_left_cut |-> bl, bottom_right_cut |-> br,
                      blend_top_left |-> BlendAbove(tl),
                      blend_top_right |-> BlendAbove(tr),
                      blend_bottom_left |-> BlendBelow(bl),
                      blend_bottom_right |-> BlendBelow(br)])

\* pipe_shadow lines 405-429: the signature has no pipe_angle parameter, so
\* a call that passes one is rejected with TypeError, and line 429 reads the
\* name that nothing assigns
PipeShadowEnter ==
    /\ epc = "call" /\ efn = "pipe_shadow"
    /\ IF eparam # None THEN Raise("TypeError") ELSE Raise("NameError")

\* lines 77-91 / 222-236 / 387-402: the ingredients are made of the image,
\* here read for the first time (uniform gray of level v), masked and summed
Compose ==
    /\ epc = "masks"
    /\ \E v \in Levels :
          /\ elevel' = v
          /\ \E ing \in IngredientTable[efn, v],
                x \in ProbeColumns(efn, geo) :
                /\ ingr' = ing
                /\ col' = x
                /\ result' = [y \in 0..(hh - 1) |->
                                 SumU8(Addends(efn, geo, ing, x, y))]
    /\ epc' = "returned"
    /\ UNCHANGED <<efn, hh, ww, eparam, geo>>
    /\ UNCHANGED notEnv

\* lines 78-80: an exposure call of the ingredients does not return (its
\* loop runs into a negative gamma, or never meets its interval)
Stall ==
    /\ epc = "masks"
    /\ \E v \in Levels :
          /\ IngredientTable[efn, v] = {}
          /\ elevel' = v
    /\ epc' = "no_return"
    /\ UNCHANGED <<efn, hh, ww, eparam, geo, ingr, col, result>>
    /\ UNCHANGED notEnv

EnvNext ==
    \/ PointEnter \/ StreakSourceEnter \/ StreakShadowEnter
    \/ PipeSourceEnter \/ PipeShadowEnter \/ Compose \/ Stall

\* the part of a call that draws the geometry
GeoNext ==
    \/ PointEnter \/ StreakSourceEnter \/ StreakShadowEnter
    \/ PipeSourceEnter \/ PipeShadowEnter

-----------------------------------------------------------------------------
(* noise_faces.py: noise_helper on a file tree                             *)

\* A path is the sequence of its components, an absolute path starts with
\* "/".  A file name is the sequence of its dot-separated parts, each part
\* the sequence of the pieces it was concatenated from.
DataRoot == <<"/", "data">>
WriteRoot == <<"/", "out">>
Subject == "s1"
FileNames ==
    {<<<<"a">>, <<"png">>>>, <<<<"a">>, <<"b">>, <<"png">>>>,
     <<<<"notes">>, <<"txt">>>>}

Range(s) == {s[i] : i \in DOMAIN s}
Prefixes(p) == {SubSeq(p, 1, n) : n \in 1..Len(p)}
Perms(S) ==
    {s \in [1..Cardinality(S) -> S] :
        \A i, j \in 1..Cardinality(S) : s[i] = s[j] => i = j}

\* os.path.join(a, b): an absolute b discards a
Join(a, b) == IF b # <<>> /\ b[1] = "/" THEN b ELSE a \o b

\* glob("*.png") in directory d
Glob(d, files) ==
    {k[2] : k \in {q \in DOMAIN files :
                      /\ q[1] = d
                      /\ Len(q[2]) >= 2
                      /\ q[2][Len(q[2])] = <<"png">>}}

\* the content of an image file: the noise function that made it ("none"
\* for an original) and the gray level of the original
Content(n, v) == [noise |-> n, level |-> v]
NoImage == Content("unset", 0)

\* lines 114-118
sensor_noises == <<"blur", "gaussian", "poisson", "salt_and_pepper">>
exposures == <<"under_expose", "over_expose">>
environments ==
    <<"point_source", "point_shadow", "streak_source", "streak_shadow",
      "pipe_source", "pipe_shadow">>

\* (mutant) the pool holds every noise whatever the flags are
NoisesIgnoringFlags(cam, env) == sensor_noises \o exposures \o environments
\* lines 121-123: the enabled pool
Noises(cam, env) ==
    (IF cam THEN sensor_noises \o exposures ELSE <<>>)
       \o (IF env THEN environments ELSE <<>>)

\* a call that can end in no way does not return
OrNoReturn(S) == IF S = {} THEN {"no_return"} ELSE S

\* line 166: the ways noisify(image) can end for an image of gray level v.
\* The sensor transforms return; the exposures run their loops with the
\* standalone defaults; an effect returns when its three ingredients do and
\* raises what its exposure calls raise; streak_shadow and pipe_shadow read
\* the unassigned pts / pipe_angle.
NoiseOutcomes(f, v) ==
    IF f \in Range(sensor_noises) THEN {"returned"}
    ELSE IF f \in Range(exposures)
    THEN OrNoReturn(ExposeOutcomes(f, <<v, v>>, FALSE))
    ELSE IF f \in {"streak_shadow", "pipe_shadow"} THEN {"NameError"}
    ELSE OrNoReturn(
            {o \in {"returned"} : IngredientTable[f, v] # {}}
               \cup ((ExposeOutcomes("over_expose", <<v, v>>, TRUE)
                        \cup ExposeOutcomes("under_expose", <<v, v>>, TRUE))
                     \ {"returned"}))

\* NoiseOutcomes, tabulated once for the levels of the model
OutcomeTable ==
    [f \in Range(sensor_noises \o exposures \o environments), v \in Levels
        |-> NoiseOutcomes(f, v)]

\* gen_os_path(write_dir, name) is not part of src/; by the output layout
\* of the specification it is the subdirectory of write_dir of that name
gen_os_path(dir, name) == Join(dir, <<name>>)

\* image_write lines 54-58 with the default counter: the file name
\* im_name + '_' + noise.__name__ + '' + '.png'
WriteName(im_name, noise) == <<im_name \o <<"_", noise>>, <<"png">>>>

Unset == [bound |-> FALSE, value |-> <<>>]
Bound(p) == [bound |-> TRUE, value |-> p]

\* the files of the subject directory, with the output of an earlier run
\* when prior holds
Tree(names, v, prior) ==
    LET d == DataRoot \o <<Subject>>
        old == IF prior
               THEN {<<d \o <<"blur">>, WriteName(<<"a">>, "blur")>>}
               ELSE {}
    IN  [k \in {<<d, n>> : n \in names} \cup old |->
            IF k \in old THEN Content("blur", v) ELSE Content("none", v)]

GenInit ==
    /\ im_dir = DataRoot \o <<Subject>>
    /\ write_loc \in {DataRoot \o <<Subject>>, WriteRoot \o <<Subject>>}
    /\ camera_flag \in BOOLEAN
    /\ env_flag \in BOOLEAN
    /\ person_data \in {Unset, Bound(DataRoot \o <<"s0">>)}
    /\ \E present \in BOOLEAN, prior \in BOOLEAN,
          names \in SUBSET FileNames, v \in Levels :
          /\ ~present => (names = {} /\ ~prior)
          /\ dirs = Prefixes(DataRoot) \cup Prefixes(WriteRoot)
                      \cup (IF present THEN {DataRoot \o <<Subject>>}
                            ELSE {})
                      \cup (IF prior THEN {DataRoot \o <<Subject, "blur">>}
                            ELSE {})
          /\ fs = Tree(names, v, prior)
    /\ cwd = <<"/">>
    /\ noises = <<>> /\ loc_dir = <<>> /\ write_dir = <<>>
    /\ images = <<>> /\ idx = 0
    /\ nh_image = NoImage /\ noisify = "unset" /\ im_noisy = NoImage
    /\ opened = <<>> /\ drawn = <<>> /\ applied = <<>> /\ written = <<>>
    /\ gpc = "call"

\* no call of noise_helper in progress
HelperIdle ==
    /\ im_dir = <<>> /\ write_loc = <<>>
    /\ camera_flag = FALSE /\ env_flag = FALSE
    /\ person_data = Unset
    /\ noises = <<>> /\ loc_dir = <<>> /\ write_dir = <<>>
    /\ images = <<>> /\ idx = 0
    /\ nh_image = NoImage /\ noisify = "unset" /\ im_noisy = NoImage
    /\ opened = <<>> /\ drawn = <<>> /\ applied = <<>> /\ written = <<>>
    /\ gpc = "idle"

GenIdle == HelperIdle /\ dirs = {} /\ fs = <<>> /\ cwd = <<"/">>

\* lines 111-146: the pool, the two paths, the directories, chdir, glob
Setup ==
    /\ gpc = "call"
    /\ noises' = Noises(camera_flag, env_flag)
    /\ IF ~person_data.bound
       THEN \* line 126 reads the global person_data
            /\ gpc' = "NameError"
            /\ UNCHANGED <<loc_dir, write_dir, dirs, cwd, images, idx>>
       ELSE LET ld == Join(person_data.value, im_dir)
                wd == Join(write_loc, im_dir)
            IN  /\ loc_dir' = ld
                /\ write_dir' = wd
                /\ IF ld \notin dirs
                   THEN /\ gpc' = "done"
                        /\ UNCHANGED <<dirs, cwd, images, idx>>
                   ELSE /\ dirs' = dirs \cup Prefixes(wd)
                                     \cup {Join(wd, <<n>>) :
                                              n \in Range(noises')}
                        /\ cwd' = ld
                        /\ images' \in Perms(Glob(ld, fs))
                        /\ idx' = 1
                        /\ gpc' = "loop"
    /\ UNCHANGED <<im_dir, write_loc, camera_flag, env_flag, person_data, fs,
                   nh_image, noisify, im_noisy, opened, drawn, applied,
                   written>>
    /\ UNCHANGED notGen

\* lines 149-159: the next image is opened and its noise is drawn
NextImage ==
    /\ gpc = "loop"
    /\ idx <= Len(images)
    /\ nh_image' = fs[<<loc_dir, images[idx]>>]
    /\ opened' = Append(opened, <<loc_dir, images[idx]>>)
    /\ \E choice \in {"none"} \cup Range(noises) :
          /\ noisify' = choice
          /\ drawn' = Append(drawn, choice)
          /\ IF choice = "none"
             THEN idx' = idx + 1 /\ gpc' = "loop"
             ELSE idx' = idx /\ gpc' = "apply"
    /\ UNCHANGED <<im_dir, write_loc, camera_flag, env_flag, person_data,
                   dirs, fs, cwd, noises, loc_dir, write_dir, images,
                   im_noisy, applied, written>>
    /\ UNCHANGED notGen

\* lines 162-166: the noise function is applied to the image
Apply ==
    /\ gpc = "apply"
    /\ applied' = Append(applied, [fn |-> noisify, input |-> nh_image,
                                   im |-> images[idx]])
    /\ \E o \in OutcomeTable[noisify, nh_image.level] :
          IF o = "returned"
          THEN /\ im_noisy' = Content(noisify, nh_image.level)
               /\ gpc' = "write"
          ELSE /\ gpc' = o
               /\ UNCHANGED im_noisy
    /\ UNCHANGED <<im_dir, write_loc, camera_flag, env_flag, person_data,
                   dirs, fs, cwd, noises, loc_dir, write_dir, images, idx,
                   nh_image, noisify, opened, drawn, written>>
    /\ UNCHANGED notGen

\* lines 169-170: the noisy image is written, the loop goes on
Write ==
    /\ gpc = "write"
    /\ LET d == gen_os_path(write_dir, noisify)
           k == <<d, WriteName(images[idx][1], noisify)>>
       IN  IF d \notin dirs
           THEN /\ gpc' = "FileNotFoundError"
                /\ UNCHANGED <<fs, written, idx>>
           ELSE /\ fs' = [q \in DOMAIN fs \cup {k} |->
                             IF q = k THEN im_noisy ELSE fs[q]]
                /\ written' = Append(written, [path |-> k,
                                                 im |-> images[idx]])
                /\ idx' = idx + 1
                /\ gpc' = "loop"
    /\ UNCHANGED <<im_dir, write_loc, camera_flag, env_flag, person_data,
                   dirs, cwd, noises, loc_dir, write_dir, images, nh_image,
                   noisify, im_noisy, opened, drawn, applied>>
    /\ UNCHANGED notGen

\* line 149: the images are exhausted, noise_helper returns
Finish ==
    /\ gpc = "loop"
    /\ idx > Len(images)
    /\ gpc' = "done"
    /\ UNCHANGED <<im_dir, write_loc, camera_flag, env_flag, person_data,
                   dirs, fs, cwd, noises, loc_dir, write_dir, images, idx,
                   nh_image, noisify, im_noisy, opened, drawn, applied,
                   written>>
    /\ UNCHANGED notGen

GenNext == Setup \/ NextImage \/ Apply \/ Write \/ Finish

-----------------------------------------------------------------------------
(* noise_faces.py: reset_noises on a file tree                             *)

\* reset_noises is called up to MaxRuns times in a row
MaxRuns == 2

\* the top-level directories a tree can hold, as sorted() orders them
SubjectOrder == <<"s1", "s2">>
\* what a subject directory can hold below itself: noise-named directories,
\* a category directory and a noise-named directory inside the category
SubPaths ==
    {<<"blur">>, <<"over_expose">>, <<"point_source">>, <<"Live">>,
     <<"Live", "blur">>}

\* path p is d or lies below d
IsUnder(d, p) == Len(p) >= Len(d) /\ SubSeq(p, 1, Len(d)) = d

\* the file a directory of the tree holds: an original image in a subject
\* or category directory, a generated image in a noise-named directory
FileIn(d) ==
    LET n == d[Len(d)]
    IN  IF n \in Range(sensor_noises \o exposures \o environments)
        THEN [name |-> WriteName(<<"a">>, n), content |-> Content(n, 0)]
        ELSE [name |-> <<<<"a">>, <<"png">>>>, content |-> Content("none", 0)]

\* the directories of a tree whose subject p holds the subpaths sel[p]
TreeDirs(root, sel) ==
    Prefixes(root)
       \cup UNION {{root \o <<p>>} \cup {root \o <<p>> \o q : q \in sel[p]} :
                      p \in DOMAIN sel}

TreeFiles(root, ds) ==
    [k \in {<<d, FileIn(d).name>> : d \in {e \in ds : Len(e) > Len(root)}}
        |-> FileIn(k[1]).content]

\* (mutant) the environment noises are removed as well
ResetPoolWithEnvironments == sensor_noises \o exposures \o environments
\* (mutant) the exposure directories are not removed
ResetPoolSensorsOnly == sensor_noises
\* lines 256-258: noises = camera_noises + exposures
ResetPool == sensor_noises \o exposures

\* (mutant) the existence test is dropped: rmtree is called for every name
PathExistsAlways(p, ds) == TRUE
\* line 274: os.path.exists(delete_dir)
PathExists(p, ds) == p \in ds

\* (mutant) os.chdir succeeds whatever the directory is
ChdirNeverRaises(d, ds) == FALSE
\* lines 200, 249, 279: os.chdir(d) raises FileNotFoundError when d is not
\* a directory of the tree
ChdirRaises(d, ds) == d \notin ds

\* shutil.rmtree(d): d and everything below it
RmTreeDirs(d, ds) == {p \in ds : ~IsUnder(d, p)}
RmTreeFiles(d, files) ==
    [k \in {q \in DOMAIN files : ~IsUnder(d, q[1])} |-> files[k]]

\* sorted(glob("*/")) in directory d
GlobDirs(d, ds) == SelectSeq(SubjectOrder, LAMBDA p : (d \o <<p>>) \in ds)

\* rbefore: the tree as the call in progress found it, and the directories
\* the call before it found
NoTree == [dirs |-> {}, fs |-> <<>>, prev |-> {}]

ResetInit ==
    /\ write_root = WriteRoot
    /\ \E present \in BOOLEAN,
          sel \in UNION {[S -> {Q \in SUBSET SubPaths :
                                   <<"Live", "blur">> \in Q
                                      => <<"Live">> \in Q}] :
                            S \in SUBSET Range(SubjectOrder)} :
          /\ dirs = IF present THEN TreeDirs(WriteRoot, sel)
                    ELSE Prefixes(DataRoot)
          /\ fs = IF present THEN TreeFiles(WriteRoot, TreeDirs(WriteRoot, sel))
                  ELSE <<>>
    /\ cwd \in {<<"/">>} \cup ({WriteRoot \o <<"s1", "blur">>} \cap dirs)
    /\ proj_root = <<>> /\ directories = <<>>
    /\ rperson = 0 /\ rnoise = 0
    /\ rbefore = NoTree
    /\ runs = 0
    /\ rpc = "call"

\* no call of reset_noises in progress
ResetIdle ==
    /\ write_root = <<>> /\ proj_root = <<>> /\ directories = <<>>
    /\ rperson = 0 /\ rnoise = 0 /\ rbefore = NoTree /\ runs = 0
    /\ rpc = "idle"

\* lines 246-258: getcwd, chdir(write_root), the sorted glob
ResetStart ==
    /\ rpc \in {"call", "done", "FileNotFoundError"}
    /\ runs < MaxRuns
    /\ runs' = runs + 1
    /\ proj_root' = cwd
    /\ rbefore' = [dirs |-> dirs, fs |-> fs, prev |-> rbefore.dirs]
    /\ IF ChdirRaises(write_root, dirs)
       THEN /\ rpc' = "FileNotFoundError"
            /\ UNCHANGED <<cwd, directories, rperson, rnoise>>
       ELSE /\ cwd' = write_root
            /\ directories' = GlobDirs(write_root, dirs)
            /\ rperson' = 1
            /\ rnoise' = 1
            /\ rpc' = "loop"
    /\ UNCHANGED <<write_root, dirs, fs>>
    /\ UNCHANGED notRs

\* lines 261-275: one noise of one person: the subdirectory is removed when
\* it exists; shutil.rmtree of a missing directory raises FileNotFoundError
ResetStep ==
    /\ rpc = "loop"
    /\ rperson <= Len(directories)
    /\ LET person_dir == Join(write_root, <<directories[rperson]>>)
           delete_dir == gen_os_path(person_dir, ResetPool[rnoise])
           advance == IF rnoise < Len(ResetPool)
                      THEN rnoise' = rnoise + 1 /\ rperson' = rperson
                      ELSE rnoise' = 1 /\ rperson' = rperson + 1
       IN  IF ~PathExists(delete_dir, dirs)
           THEN advance /\ UNCHANGED <<dirs, fs, rpc>>
           ELSE IF delete_dir \in dirs
           THEN /\ dirs' = RmTreeDirs(delete_dir, dirs)
                /\ fs' = RmTreeFiles(delete_dir, fs)
                /\ advance
                /\ UNCHANGED rpc
           ELSE /\ rpc' = "FileNotFoundError"
                /\ UNCHANGED <<dirs, fs, rperson, rnoise>>
    /\ UNCHANGED <<write_root, proj_root, directories, rbefore, runs, cwd>>
    /\ UNCHANGED notRs

\* line 279: chdir(proj_root), which fails when the call removed it
ResetEnd ==
    /\ rpc = "loop"
    /\ rperson > Len(directories)
    /\ IF ChdirRaises(proj_root, dirs)
       THEN cwd' = cwd /\ rpc' = "FileNotFoundError"
       ELSE cwd' = proj_root /\ rpc' = "done"
    /\ UNCHANGED <<write_root, proj_root, directories, rperson, rnoise,
                   rbefore, runs, dirs, fs>>
    /\ UNCHANGED notRs

ResetNext == ResetStart \/ ResetStep \/ ResetEnd

-----------------------------------------------------------------------------
(* noise_faces.py: noisify_data and its process pool                       *)

\* mp.cpu_count() is between 1 and MaxWorkers
MaxWorkers == 2

\* the gray levels of the images of the data set: a dark one and white
PoolLevels == {MaxPix \div MaxLevel, MaxPix}

OriginalName == <<<<"a">>, <<"png">>>>

\* a forked worker starts in the working directory of its parent
IdleWorker(d) ==
    [pc |-> "idle", person |-> "none", cwd |-> d, loc_dir |-> <<>>,
     write_dir |-> <<>>, images |-> <<>>, idx |-> 0]

\* state: "none", "queued", "running", "returned", "raised", "stalled";
\* starts: how often a worker began the task; drawn: the random choices and
\* their outcomes, <<noise, outcome, image>> each; dirsTouched, filesTouched: the paths the task read,
\* created or wrote
NoTask ==
    [state |-> "none", starts |-> 0, error |-> "none", drawn |-> <<>>,
     dirsTouched |-> {}, filesTouched |-> {}]

NoTreeYet == [dirs |-> {}, fs |-> <<>>, cwd |-> <<>>]

PoolInit ==
    /\ \E present \in BOOLEAN, S \in SUBSET Range(SubjectOrder),
          wr \in {<<>>, DataRoot, WriteRoot}, cam \in BOOLEAN,
          env \in BOOLEAN :
          /\ ~present => S = {}
          /\ dirs = IF present
                    THEN Prefixes(DataRoot) \cup {DataRoot \o <<p>> : p \in S}
                    ELSE {<<"/">>}
          /\ \E lv \in [S -> PoolLevels] :
                fs = [k \in {<<DataRoot \o <<p>>, OriginalName>> : p \in S}
                        |-> Content("none", lv[k[1][Len(DataRoot) + 1]])]
          /\ nd = [data_root |-> DataRoot, write_root |-> wr,
                   camera_flag |-> cam, environment_flag |-> env,
                   proj_root |-> <<>>, directories |-> <<>>, num |-> 0]
    /\ globals \in [data : {Unset, Bound(DataRoot), Bound(<<"/">>)},
                    person_data : {Unset, Bound(DataRoot)}]
    /\ cwd = <<"/">>
    /\ queue = <<>>
    /\ workers = <<>>
    /\ tasks = [p \in Range(SubjectOrder) |-> NoTask]
    /\ nbefore = NoTreeYet
    /\ npc = "call"

\* the script's generation call with camera noise only on a tree that can
\* hold the output of an earlier run: the subjects of Old have the
\* directory blur with the noisy image of their original
RoundTripInit ==
    /\ \E S \in SUBSET Range(SubjectOrder) :
          \E Old \in SUBSET S, lv \in [S -> PoolLevels] :
             LET sub(q) == DataRoot \o <<q>>
                 out(q) == <<gen_os_path(sub(q), "blur"),
                             WriteName(OriginalName[1], "blur")>>
                 level(k) == lv[k[1][Len(DataRoot) + 1]]
             IN  /\ dirs = Prefixes(DataRoot) \cup {sub(q) : q \in S}
                              \cup {out(q)[1] : q \in Old}
                 /\ fs = [k \in {<<sub(q), OriginalName>> : q \in S}
                                  \cup {out(q) : q \in Old} |->
                             IF k[2] = OriginalName
                             THEN Content("none", level(k))
                             ELSE Content("blur", level(k))]
    /\ nd = [data_root |-> DataRoot, write_root |-> DataRoot,
             camera_flag |-> TRUE, environment_flag |-> FALSE,
             proj_root |-> <<>>, directories |-> <<>>, num |-> 0]
    /\ globals \in [data : {Bound(DataRoot)},
                    person_data : {Unset, Bound(DataRoot)}]
    /\ cwd = <<"/">>
    /\ queue = <<>>
    /\ workers = <<>>
    /\ tasks = [q \in Range(SubjectOrder) |-> NoTask]
    /\ nbefore = NoTreeYet
    /\ npc = "call"

\* lines 307-309: after the generation the script is run in mode RM on the
\* same path
MainRemoval ==
    /\ npc = "returned"
    /\ rpc = "idle"
    /\ write_root' = nd.write_root
    /\ rpc' = "call"
    /\ UNCHANGED <<proj_root, directories, rperson, rnoise, rbefore, runs>>
    /\ UNCHANGED <<exVars, snVars, envVars, genVars, poolVars>>

\* no call of noisify_data in progress
PoolIdle ==
    /\ nd = <<>> /\ globals = <<>> /\ queue = <<>> /\ workers = <<>>
    /\ tasks = <<>> /\ nbefore = NoTreeYet
    /\ npc = "idle"

\* (mutant) join does not wait for a worker that is stalled
JoinReadyIgnoringStalled(q, ws) ==
    q = <<>> /\ \A w \in DOMAIN ws : ws[w].pc \in {"idle", "stalled"}
\* lines 228-229: close() and join() return when the queue is drained and
\* every worker has left its task
JoinReady(q, ws) == q = <<>> /\ \A w \in DOMAIN ws : ws[w].pc = "idle"

\* (mutant) every task is given the root itself
PersonPathIsRoot(root, person) == root
\* lines 223-224: os.path.join(data_root, person), os.path.join(write_root,
\* person)
PersonPath(root, person) == Join(root, <<person>>)

\* (mutant) every task is put on the queue twice
ApplyAsyncTwice(q, t) == Append(Append(q, t), t)
\* line 225: pool.apply_async puts the task at the end of the queue
ApplyAsync(q, t) == Append(q, t)

\* lines 194-216: the assert on the global data, getcwd, chdir(data_root),
\* the sorted glob, the write root, the pool of mp.cpu_count() workers
NoisifyStart ==
    /\ npc = "call"
    /\ nbefore' = [dirs |-> dirs, fs |-> fs, cwd |-> cwd]
    /\ IF ~globals.data.bound
       THEN /\ npc' = "NameError"
            /\ UNCHANGED <<nd, workers, dirs, cwd>>
       ELSE IF ~PathExists(globals.data.value, dirs)
       THEN /\ npc' = "AssertionError"
            /\ UNCHANGED <<nd, workers, dirs, cwd>>
       ELSE IF ChdirRaises(nd.data_root, dirs)
       THEN /\ npc' = "FileNotFoundError"
            /\ nd' = [nd EXCEPT !.proj_root = cwd]
            /\ UNCHANGED <<workers, dirs, cwd>>
       ELSE LET wr == IF nd.write_root = <<>> THEN nd.data_root
                      ELSE nd.write_root
            IN  /\ cwd' = nd.data_root
                /\ nd' = [nd EXCEPT
                             !.proj_root = cwd,
                             !.directories = GlobDirs(nd.data_root, dirs),
                             !.write_root = wr,
                             !.num = 1]
                /\ dirs' = dirs \cup Prefixes(wr)
                /\ \E n \in 1..MaxWorkers :
                      workers' = [w \in 1..n |-> IdleWorker(nd.data_root)]
                /\ npc' = "dispatch"
    /\ UNCHANGED <<globals, queue, tasks, fs>>
    /\ UNCHANGED notPool

\* lines 220-225: the task of the next directory is put on the queue
Dispatch ==
    /\ npc = "dispatch"
    /\ nd.num <= Len(nd.directories)
    /\ LET person == nd.directories[nd.num]
           person_dir == PersonPath(nd.data_root, person)
           wl == PersonPath(nd.write_root, person)
       IN  /\ queue' = ApplyAsync(queue, [person |-> person,
                                          im_dir |-> person_dir,
                                          write_loc |-> wl])
           /\ tasks' = [tasks EXCEPT ![person].state = "queued"]
    /\ nd' = [nd EXCEPT !.num = @ + 1]
    /\ UNCHANGED <<globals, workers, nbefore, npc, dirs, fs, cwd>>
    /\ UNCHANGED notPool

\* lines 228-232: close, join, chdir(proj_root)
NoisifyReturn ==
    /\ npc = "dispatch"
    /\ nd.num > Len(nd.directories)
    /\ JoinReady(queue, workers)
    /\ cwd' = nd.proj_root
    /\ npc' = "returned"
    /\ UNCHANGED <<nd, globals, queue, workers, tasks, nbefore, dirs, fs>>
    /\ UNCHANGED notPool

\* an idle worker takes the oldest task and runs noise_helper up to its
\* loop, lines 111-146; an exception ends the task and is kept in a result
\* nobody reads, the worker goes on
TaskStart(w) ==
    /\ w \in DOMAIN workers
    /\ npc = "dispatch"
    /\ workers[w].pc = "idle"
    /\ queue # <<>>
    /\ queue' = Tail(queue)
    /\ LET t == Head(queue)
           began == [tasks[t.person] EXCEPT !.starts = @ + 1]
       IN  IF ~globals.person_data.bound
           THEN /\ tasks' = [tasks EXCEPT ![t.person] =
                                [began EXCEPT !.state = "raised",
                                              !.error = "NameError"]]
                /\ UNCHANGED <<workers, dirs>>
           ELSE LET ld == Join(globals.person_data.value, t.im_dir)
                    wd == Join(t.write_loc, t.im_dir)
                    pool == Noises(nd.camera_flag, nd.environment_flag)
                    made == (Prefixes(wd)
                                \cup {Join(wd, <<n>>) : n \in Range(pool)})
                               \ dirs
                IN  IF ld \notin dirs
                    THEN /\ tasks' = [tasks EXCEPT ![t.person] =
                                         [began EXCEPT !.state = "returned"]]
                         /\ UNCHANGED <<workers, dirs>>
                    ELSE /\ dirs' = dirs \cup made
                         /\ \E ims \in Perms(Glob(ld, fs)) :
                               workers' = [workers EXCEPT ![w] =
                                   [pc |-> "loop", person |-> t.person,
                                    cwd |-> ld, loc_dir |-> ld,
                                    write_dir |-> wd, images |-> ims,
                                    idx |-> 1]]
                         /\ tasks' = [tasks EXCEPT ![t.person] =
                               [began EXCEPT
                                   !.state = "running",
                                   !.dirsTouched = {ld} \cup made]]
    /\ UNCHANGED <<nd, globals, nbefore, npc, fs, cwd>>
    /\ UNCHANGED notPool

\* lines 149-170 for the next image of the task: the image is opened, the
\* noise is drawn and applied, the result is written; a noise call that does
\* not return keeps the worker for good
TaskImage(w) ==
    /\ w \in DOMAIN workers
    /\ workers[w].pc = "loop"
    /\ workers[w].idx <= Len(workers[w].images)
    /\ LET me == workers[w]
           p == me.person
           k == <<me.loc_dir, me.images[me.idx]>>
           v == fs[k].level
           read == [tasks[p] EXCEPT !.filesTouched = @ \cup {k}]
       IN  \E choice \in {"none"}
                \cup Range(Noises(nd.camera_flag, nd.environment_flag)) :
              IF choice = "none"
              THEN /\ tasks' = [tasks EXCEPT ![p] =
                      [read EXCEPT !.drawn =
                                      Append(@, <<choice, "skipped", k[2]>>)]]
                   /\ workers' = [workers EXCEPT ![w].idx = @ + 1]
                   /\ UNCHANGED fs
              ELSE \E o \in OutcomeTable[choice, v] :
                 LET d == gen_os_path(me.write_dir, choice)
                     out == <<d, WriteName(me.images[me.idx][1], choice)>>
                     err == IF o = "returned" THEN "FileNotFoundError" ELSE o
                     drew == [read EXCEPT
                                !.drawn = Append(@, <<choice, o, k[2]>>)]
                 IN  IF o = "returned" /\ d \in dirs
                     THEN /\ fs' = [q \in DOMAIN fs \cup {out} |->
                                       IF q = out THEN Content(choice, v)
                                       ELSE fs[q]]
                          /\ tasks' = [tasks EXCEPT ![p] =
                                [drew EXCEPT !.filesTouched = @ \cup {out}]]
                          /\ workers' = [workers EXCEPT ![w].idx = @ + 1]
                     ELSE IF o = "no_return"
                     THEN /\ tasks' = [tasks EXCEPT ![p] =
                                [drew EXCEPT !.state = "stalled"]]
                          /\ workers' = [workers EXCEPT ![w].pc = "stalled"]
                          /\ UNCHANGED fs
                     ELSE /\ tasks' = [tasks EXCEPT ![p] =
                                [drew EXCEPT !.state = "raised",
                                             !.error = err]]
                          /\ workers' = [workers EXCEPT ![w].pc = "idle"]
                          /\ UNCHANGED fs
    /\ UNCHANGED <<nd, globals, queue, nbefore, npc, dirs, cwd>>
    /\ UNCHANGED notPool

\* line 149: the images are exhausted, noise_helper returns and the worker
\* is free again
TaskReturn(w) ==
    /\ w \in DOMAIN workers
    /\ workers[w].pc = "loop"
    /\ workers[w].idx > Len(workers[w].images)
    /\ tasks' = [tasks EXCEPT ![workers[w].person].state = "returned"]
    /\ workers' = [workers EXCEPT ![w].pc = "idle"]
    /\ UNCHANGED <<nd, globals, queue, nbefore, npc, dirs, fs, cwd>>
    /\ UNCHANGED notPool

PoolNext ==
    \/ NoisifyStart
    \/ Dispatch
    \/ NoisifyReturn
    \/ \E w \in DOMAIN workers : TaskStart(w)
    \/ \E w \in DOMAIN workers : TaskImage(w)
    \/ \E w \in DOMAIN workers : TaskReturn(w)

-----------------------------------------------------------------------------
(* Specifications                                                          *)

\* one call of under_expose or over_expose
InitExposure == ExInit /\ SnIdle /\ EnvIdle /\ GenIdle /\ ResetIdle /\ PoolIdle
SpecExposure == InitExposure /\ [][ExNext]_vars

\* two calls of one sensor transform on the same input
InitSensor == SnInit /\ ExIdle /\ EnvIdle /\ GenIdle /\ ResetIdle /\ PoolIdle
SpecSensor == InitSensor /\ [][SnNext]_vars

\* one call of an environment effect
InitEnv == EnvInit /\ ExIdle /\ SnIdle /\ GenIdle /\ ResetIdle /\ PoolIdle
SpecEnv == InitEnv /\ [][EnvNext]_vars

\* generation with camera noise, then removal, on the same tree
InitRoundTrip ==
    RoundTripInit /\ HelperIdle /\ ExIdle /\ SnIdle /\ EnvIdle /\ ResetIdle
SpecRoundTrip ==
    InitRoundTrip /\ [][PoolNext \/ MainRemoval \/ ResetNext]_vars

\* the geometry an environment effect draws, for images of many sizes
InitGeo ==
    GeoInit /\ ExIdle /\ SnIdle /\ GenIdle /\ ResetIdle /\ PoolIdle
SpecGeo == InitGeo /\ [][GeoNext]_vars

\* one call of noise_helper
InitGen ==
    GenInit /\ ExIdle /\ SnIdle /\ EnvIdle /\ ResetIdle /\ PoolIdle
SpecGen == InitGen /\ [][GenNext]_vars

\* calls of reset_noises in a row
InitReset ==
    ResetInit /\ HelperIdle /\ ExIdle /\ SnIdle /\ EnvIdle /\ PoolIdle
SpecReset == InitReset /\ [][ResetNext]_vars

\* one call of noisify_data
InitPool ==
    PoolInit /\ HelperIdle /\ ExIdle /\ SnIdle /\ EnvIdle /\ ResetIdle

\* lines 303-309: the script runs noisify_data or reset_noises
SpecMain == (InitPool \/ InitReset) /\ [][PoolNext \/ ResetNext]_vars

\* one call of noisify_data where every process that can take a step takes
\* it in the end: the main process and the workers are processes of their
\* own, each scheduled by the operating system; a worker inside a loop that
\* does not end has no step to take
PoolFairness ==
    /\ WF_vars(NoisifyStart)
    /\ WF_vars(Dispatch)
    /\ WF_vars(NoisifyReturn)
    /\ \A w \in 1..MaxWorkers :
          WF_vars(TaskStart(w)) /\ WF_vars(TaskImage(w))
             /\ WF_vars(TaskReturn(w))
\* lines 287-288, 304: the call the script makes, where the global data and
\* both roots are the same path
InitScript ==
    /\ InitPool
    /\ globals.data = Bound(nd.data_root)
    /\ nd.write_root = nd.data_root
SpecPoolFair == InitScript /\ [][PoolNext]_vars /\ PoolFairness

-----------------------------------------------------------------------------
(* Claims about the exposure loops                                         *)

Terminated == pc \in {"returned", "NameError", "ValueError"}

\* the tolerance interval chosen at the start of the call, as <<low, high>>:
\* [bound, target] for under_expose, [target, bound] for over_expose
ToleranceInterval ==
    LET loc == Defaults(fn, image, environment_flag)
    IN  IF fn = "under_expose" THEN <<loc.floor, loc.desired>>
        ELSE <<loc.desired,
               IF environment_flag THEN loc.ceiling ELSE loc.floor>>

InInterval(m, iv) == iv[1] <= m /\ m <= iv[2]

\* C1: whenever under_expose or over_expose returns, the mean normalized
\* luminance of the returned image lies inside the tolerance interval chosen
\* at the start of the call.
C1_ReturnedInsideInterval ==
    pc = "returned" =>
        InInterval(MeanLuminance(image_noise), ToleranceInterval)

\* C1 witness: a call that went through the loop at least once and returned.
C1_Witness ==
    /\ pc = "returned"
    /\ lastNudge > 0
    /\ fn = "over_expose"
    /\ InInterval(MeanLuminance(image_noise), ToleranceInterval)

\* C2: over_expose with standalone defaults ends by returning an image whose
\* mean luminance is in [0.85, 0.9].
C2_OverStandaloneConverges ==
    (/\ fn = "over_expose" /\ gammaArg = None /\ ~environment_flag
     /\ Terminated)
    => /\ pc = "returned"
       /\ InInterval(MeanLuminance(image_noise),
                     <<Frac(85, 100), Frac(9, 10)>>)

\* C6: a call given an explicit gamma uses that value and completes by
\* returning an image.
C6_ExplicitGammaReturns ==
    (gammaArg # None /\ Terminated) => pc = "returned"

-----------------------------------------------------------------------------
(* Claims about the sensor transforms                                      *)

\* every randomized parameter of the transform is pinned by the caller
\* (poisson has none)
Pinned == sarg # None \/ sfn = "poisson"

TwoCalls == Len(scalls) = 2

\* C7 (as claimed): two calls on the same input with every randomized
\* parameter pinned to the same value produce bit-identical outputs.
C7_PinnedCallsAgree ==
    (TwoCalls /\ Pinned) => scalls[1].out = scalls[2].out

\* C7 (amended): for blur, two calls on the same input with sigma pinned use
\* the pinned sigma and produce bit-identical outputs.
C7_BlurPinnedCallsAgree ==
    (TwoCalls /\ sfn = "blur" /\ sarg # None) =>
        /\ scalls[1].param = sarg /\ scalls[2].param = sarg
        /\ scalls[1].out = scalls[2].out

\* C7 witness: blur with sigma pinned was called twice on an image it changes.
C7_Witness ==
    /\ TwoCalls /\ sfn = "blur" /\ sarg # None
    /\ scalls[1].out # simage
    /\ scalls[2].out = scalls[1].out

-----------------------------------------------------------------------------
(* Claims about the environment effects                                    *)

Pixels == (0..(ww - 1)) \X (0..(hh - 1))

NonZero(m) == {i \in 1..Len(m) : m[i] # 0}

\* C3: in each effect and for every geometry draw, the region masks used in
\* compositing (effect, background, transition band(s)) are pairwise
\* non-overlapping and cover every pixel exactly once.
C3_RegionsPartition ==
    epc = "masks" =>
        \A p \in Pixels :
            Cardinality(NonZero(RegionMasks(efn, geo, p[1], p[2]))) = 1

\* C4: for the ellipse effects the blend ellipse mask strictly contains the
\* primary ellipse mask: every primary pixel is a blend pixel and some blend
\* pixel is not a primary pixel.
C4_BlendStrictlyContains ==
    (epc = "masks" /\ efn \in PointEffects) =>
        /\ \A p \in Pixels :
              PointOverlay(geo, p[1], p[2]) # 0
                 => PointMaskBlend(geo, p[1], p[2]) # 0
        /\ \E p \in Pixels :
              /\ PointMaskBlend(geo, p[1], p[2]) # 0
              /\ PointOverlay(geo, p[1], p[2]) = 0

\* the ingredient the compositing assigns to region i of effect f
RegionIngredient(f, ing, i) ==
    IF i = 1 THEN (IF f \in SourceEffects THEN ing.img_over
                   ELSE ing.img_under)
    ELSE IF i = 2 THEN (IF f \in SourceEffects THEN ing.img_under
                        ELSE ing.img_over)
    ELSE ing.img_blur

\* C5: the final 8-bit addition never wraps: at every pixel at most one
\* addend is non-zero and the output pixel is the pixel of the ingredient
\* of the one region that contains it.
C5_SumIsOneIngredient ==
    epc = "returned" =>
        \A y \in 0..(hh - 1) :
            LET a == Addends(efn, geo, ingr, col, y)
                m == RegionMasks(efn, geo, col, y)
            IN  /\ Cardinality(NonZero(a)) <= 1
                /\ \E i \in NonZero(m) :
                      result[y] = RegionIngredient(efn, ingr, i)

\* C8: a streak or pipe effect called with an explicit angle ends with the
\* ValueError 'Function to come' and builds no mask.
C8_AngleRaisesNotSupported ==
    (efn \in StreakEffects \cup PipeEffects /\ eparam # None /\ epc # "call")
        => epc = "ValueError"

-----------------------------------------------------------------------------
(* Claims about the generation                                             *)

\* generation with only camera noise on a subject directory that holds a
\* single image
CameraOnlySingleImage == camera_flag /\ ~env_flag /\ Len(images) = 1

\* the name of the subdirectory a written file lies in
SubdirOf(w) == w.path[1][Len(w.path[1])]

Count(s, P(_)) == Cardinality({j \in 1..Len(s) : P(s[j])})

\* the handling of image i of the run is over: the loop went past it, or
\* the run ended on it
Over(i) ==
    \/ i < idx
    \/ i = idx /\ gpc \notin {"loop", "apply", "write"}

\* C10: every image is read once, passed through at most one noise function
\* of the enabled pool and written at most once: exactly one file when the
\* choice is a noise function and none when it is 'none'; the input file is
\* never modified and no transform receives another transform's output.
C10_OneReadOneNoiseOneWrite ==
    gpc \notin {"idle", "call"} =>
        \A i \in 1..Len(images) :
            LET im == images[i]
                reads == Count(opened, LAMBDA k : k = <<loc_dir, im>>)
                calls == Count(applied, LAMBDA a : a.im = im)
                writes == Count(written, LAMBDA w : w.im = im)
            IN  /\ reads <= 1 /\ calls <= 1 /\ writes <= 1
                /\ i <= Len(drawn) => reads = 1
                /\ \A j \in 1..Len(applied) :
                      /\ applied[j].fn \in Range(noises)
                      /\ applied[j].input.noise = "none"
                /\ fs[<<loc_dir, im>>].noise = "none"
                /\ (Over(i) /\ i <= Len(drawn)) =>
                      writes = (IF drawn[i] = "none" THEN 0 ELSE 1)

-----------------------------------------------------------------------------
(* Claims about the removal                                                *)

\* the current call of reset_noises got past chdir(write_root) and is over
ResetOver ==
    /\ rpc \in {"done", "FileNotFoundError"}
    /\ write_root \in rbefore.dirs

CameraNames == Range(sensor_noises \o exposures)

\* p is, or lies below, a camera-noise-named directory that sits depth
\* levels below write_root (2: in a subject directory, 3: in a category
\* directory of a subject)
InCameraDirAt(depth, p) ==
    /\ IsUnder(write_root, p)
    /\ Len(p) >= Len(write_root) + depth
    /\ p[Len(write_root) + depth] \in CameraNames

\* the tree is the tree at the start of the call without the paths that
\* satisfy Gone, every file that is left with its content
TreeIsBeforeWithout(Gone(_)) ==
    /\ dirs = {p \in rbefore.dirs : ~Gone(p)}
    /\ DOMAIN fs = {k \in DOMAIN rbefore.fs : ~Gone(k[1])}
    /\ \A k \in DOMAIN fs : fs[k] = rbefore.fs[k]

\* C11 (as claimed): a call of reset_noises removes, under each category
\* directory of every subject, exactly the subdirectories named after the
\* camera-noise functions, and leaves everything else unchanged.
C11_RemovesUnderCategoryDirs ==
    ResetOver => TreeIsBeforeWithout(LAMBDA p : InCameraDirAt(3, p))

\* C11 (amended): a call of reset_noises removes, directly under each
\* top-level directory of write_root, exactly the subdirectories named blur,
\* gaussian, poisson, salt_and_pepper, under_expose and over_expose with
\* their content; directories of these names deeper in the tree,
\* environment-noise subdirectories and original images are left unchanged,
\* also while the call is running.
C11_RemovesUnderSubjectDirs ==
    /\ ResetOver => TreeIsBeforeWithout(LAMBDA p : InCameraDirAt(2, p))
    /\ rpc = "loop" =>
          /\ \A p \in rbefore.dirs : ~InCameraDirAt(2, p) => p \in dirs
          /\ \A k \in DOMAIN rbefore.fs :
                ~InCameraDirAt(2, k[1])
                   => (k \in DOMAIN fs /\ fs[k] = rbefore.fs[k])

\* C11 witness: a completed call removed s1/blur with its file and left
\* s1/point_source, s1/Live/blur and the original image of s1 in place.
C11_Witness ==
    /\ ResetOver /\ rpc = "done" /\ runs = 1
    /\ (write_root \o <<"s1", "blur">>) \in rbefore.dirs \ dirs
    /\ (write_root \o <<"s1", "point_source">>) \in dirs
    /\ (write_root \o <<"s1", "Live", "blur">>) \in dirs
    /\ <<write_root \o <<"s1">>, <<<<"a">>, <<"png">>>>>> \in DOMAIN fs

\* a path with a component named after a noise function
NoiseNames == Range(sensor_noises \o exposures \o environments)
NoiseNamed(p) == \E i \in 1..Len(p) : p[i] \in NoiseNames

\* C12: when reset_noises is called again on the tree a first call left, the
\* second call raises no error and leaves the tree as it found it, and no
\* call removes or changes a directory or file outside the noise-named
\* directories.
C12_SecondCallChangesNothing ==
    /\ (runs >= 2 /\ write_root \in rbefore.dirs) =>
           /\ rpc \in {"loop", "done"}
           /\ dirs = rbefore.dirs
           /\ fs = rbefore.fs
    /\ \A p \in rbefore.dirs : ~NoiseNamed(p) => p \in dirs
    /\ \A k \in DOMAIN rbefore.fs :
           ~NoiseNamed(k[1]) => k \in DOMAIN fs /\ fs[k] = rbefore.fs[k]

\* C12 witness: the first call removed a directory, the second call has
\* returned.
C12_Witness ==
    /\ runs = 2 /\ rpc = "done"
    /\ (write_root \o <<"s1", "blur">>) \in rbefore.prev \ rbefore.dirs
    /\ (write_root \o <<"s2", "over_expose">>) \in rbefore.prev \ dirs
    /\ (write_root \o <<"s1", "Live", "blur">>) \in dirs

-----------------------------------------------------------------------------
(* Claims about the two operations of the script                           *)

Failures == {"NameError", "AssertionError", "FileNotFoundError"}

\* C13: when data_root does not exist, noisify_data raises before anything
\* is processed, and so does reset_noises when write_root does not exist: no
\* directory or file is created or deleted, no task is put on the queue, no
\* pool is made, and the working directory is the one the call found.
C13_MissingRootFailsFirst ==
    /\ (npc \notin {"idle", "call"} /\ nd.data_root \notin nbefore.dirs) =>
           /\ npc \in Failures
           /\ dirs = nbefore.dirs /\ fs = nbefore.fs /\ cwd = nbefore.cwd
           /\ queue = <<>> /\ workers = <<>>
           /\ \A p \in DOMAIN tasks : tasks[p] = NoTask
    /\ (rpc \notin {"idle", "call"} /\ write_root \notin rbefore.dirs) =>
           /\ rpc \in Failures
           /\ dirs = rbefore.dirs /\ fs = rbefore.fs /\ cwd = proj_root

\* C13 witness: the script called noisify_data with a data root that does
\* not exist, and the assert of line 194 has failed.
C13_Witness ==
    /\ npc = "AssertionError"
    /\ globals.data = Bound(nd.data_root)
    /\ nd.data_root \notin dirs

Ended == {"returned", "raised"}
Raised(p) == tasks[p].state = "raised"
SomeStalled == \E q \in DOMAIN tasks : tasks[q].state = "stalled"
Dispatched == IF npc \in {"dispatch", "returned"}
              THEN Range(nd.directories) ELSE {}

Stalled(p) == tasks[p].state = "stalled"
Waiting(p) == tasks[p].state \in {"queued", "running"}
AllStalled ==
    /\ workers # <<>>
    /\ \A w \in DOMAIN workers : workers[w].pc = "stalled"

\* C15: whatever the size of the pool and the number of subjects, when the
\* task of one subject stalls in an exposure loop, the task of every other
\* subject is started and ends (or stalls itself).
C15_OthersAlwaysComplete ==
    \A p \in Range(SubjectOrder) :
       Waiting(p) ~> (tasks[p].state \in Ended \/ Stalled(p))

\* C15, amended: a task on the queue is started and ends (or stalls itself)
\* as long as not every worker of the pool is stalled; and once a task has
\* stalled noisify_data does not return.
C15_OthersCompleteWhileAWorkerIsFree ==
    /\ \A p \in Range(SubjectOrder) :
          Waiting(p) ~> (tasks[p].state \in Ended \/ Stalled(p) \/ AllStalled)
    /\ [](SomeStalled => npc # "returned")

\* C15 witness: in a pool of two workers the task of s1 has stalled, the
\* task of s2 has written its noisy image and returned.
C15_Witness ==
    /\ Len(workers) = 2
    /\ Stalled("s1")
    /\ tasks["s2"].state = "returned"
    /\ \E k \in tasks["s2"].filesTouched : k \notin DOMAIN nbefore.fs

\* the tasks a worker has begun past line 126
Begun == {p \in DOMAIN tasks : tasks[p].dirsTouched # {}}

\* what the tasks, run one after the other on the tree noisify_data found,
\* make of it with the random choices they have drawn: the directories
TreeOfChoicesDirs ==
    nbefore.dirs
       \cup (IF npc \in {"dispatch", "returned"}
             THEN Prefixes(nd.write_root) ELSE {})
       \cup UNION {{(nd.data_root \o <<p>>) \o <<n>> :
                       n \in Range(Noises(nd.camera_flag,
                                         nd.environment_flag))} :
                      p \in Begun}
\* and the files they have written
WritesOf(p) ==
    {[key |-> <<(nd.data_root \o <<p>>) \o <<c[1]>>,
                WriteName(c[3][1], c[1])>>,
      content |-> Content(c[1],
                          nbefore.fs[<<nd.data_root \o <<p>>, c[3]>>].level)] :
        c \in {e \in Range(tasks[p].drawn) : e[2] = "returned"}}
TreeOfChoicesFiles ==
    LET ws == UNION {WritesOf(p) : p \in DOMAIN tasks}
    IN  [k \in DOMAIN nbefore.fs \cup {x.key : x \in ws} |->
            IF \E x \in ws : x.key = k
            THEN (CHOOSE x \in ws : x.key = k).content
            ELSE nbefore.fs[k]]

\* C16: the paths two tasks read, create or write are disjoint, and the
\* tree is the one the random choices drawn so far determine, whatever the
\* order in which the workers took their steps.
C16_TasksTouchDisjointPaths ==
    npc \in {"dispatch", "returned"} =>
       /\ \A p, q \in DOMAIN tasks :
             p # q =>
                /\ tasks[p].dirsTouched \cap tasks[q].dirsTouched = {}
                /\ tasks[p].filesTouched \cap tasks[q].filesTouched = {}
       /\ dirs = TreeOfChoicesDirs
       /\ fs = TreeOfChoicesFiles

\* C16 witness: two workers are inside the tasks of two subjects at once,
\* one has written its noisy image already.
C16_Witness ==
    /\ Len(workers) = 2
    /\ workers[1].pc = "loop" /\ workers[2].pc = "loop"
    /\ workers[1].person # workers[2].person
    /\ \E k \in tasks[workers[1].person].filesTouched :
          k \notin DOMAIN nbefore.fs

-----------------------------------------------------------------------------
(* Claims about the exposure loops, continued                              *)

InCall == pc \notin {"idle", "entry"}

\* C17: for every input image and both modes, the tolerance interval the
\* defaults choose is non-empty (its lower end is not above its upper end),
\* which the claim needs for a terminal state to be reachable.
C17_IntervalNonEmpty ==
    (InCall /\ gammaArg = None) =>
        ToleranceInterval[1] <= ToleranceInterval[2]

\* the step is an iteration of the loop: lines 224-236 / 288-300
IsIteration == pc = "loop" /\ pc' \in {"loop", "ValueError"}
\* the ends of the interval the loop condition tests, as the locals hold them
LowerEnd == IF fn = "under_expose" THEN floor ELSE desired
UpperEnd == IF fn = "under_expose" THEN desired ELSE ceiling

\* C18: an iteration changes gamma by less than .25, downwards when the
\* mean is below the lower end of the interval and upwards when it is above
\* the upper end; the remap is given the input image and the new gamma, and
\* the new mean is the mean of that remap.
C18_NudgeBoundedAndFromOriginal ==
    [][IsIteration =>
          /\ 4 * (gamma' - gamma) < GammaDen
          /\ 4 * (gamma - gamma') < GammaDen
          /\ new_gamma < LowerEnd => gamma' <= gamma
          /\ (UpperEnd # Unbound /\ new_gamma > UpperEnd) => gamma' >= gamma
          /\ remapSource' = image /\ remapGamma' = gamma'
          /\ pc' = "loop" =>
                /\ image_noise' = adjust_gamma(image, gamma')
                /\ new_gamma' = MeanLuminance(adjust_gamma(image, gamma'))]_vars

\* C20: the gamma handed to adjust_gamma is never negative.
C20_RemapGammaNonNegative ==
    remapGamma # Unbound => remapGamma >= 0

-----------------------------------------------------------------------------
(* Claims about the geometry of the environment effects                    *)

InImage(y) == 0 <= y /\ y <= hh

\* lines 46-65: the ranges of the centre are not empty, both radii are at
\* least 1, the centre keeps the larger radius away from every side
PointValid(g) ==
    LET radius == Max(g.radius_x, g.radius_y)
    IN  /\ ~EmptyRange(radius, hh - radius)
        /\ ~EmptyRange(radius, ww - radius)
        /\ g.radius_x >= 1 /\ g.radius_y >= 1
        /\ 0 <= g.xc - radius /\ g.xc + radius <= ww
        /\ 0 <= g.yc - radius /\ g.yc + radius <= hh

\* lines 187-210: the range of the cuts is not empty, the cuts and their
\* blend offsets are rows of the image, the slice is not flat
StreakValid(g) ==
    /\ ~EmptyRange(IntTrunc(hh, 4), IntTrunc(3 * hh, 4))
    /\ InImage(g.left_cut) /\ InImage(g.right_cut)
    /\ InImage(g.blend_left) /\ InImage(g.blend_right)
    /\ g.left_cut > 0 \/ g.right_cut > 0

\* lines 334-361: the ranges of the cuts are not empty, the cuts are rows of
\* the image, the top cut is strictly above the bottom cut on both sides
PipeValid(g) ==
    /\ ~EmptyRange(IntTrunc(hh, 10), IntTrunc(hh, 3))
    /\ ~EmptyRange(IntTrunc(11 * hh, 20), IntTrunc(2 * hh, 3))
    /\ InImage(g.top_left_cut) /\ InImage(g.top_right_cut)
    /\ InImage(g.bottom_left_cut) /\ InImage(g.bottom_right_cut)
    /\ g.top_left_cut < g.bottom_left_cut
    /\ g.top_right_cut < g.bottom_right_cut

GeoValid ==
    CASE geo.kind = "point" -> PointValid(geo)
      [] geo.kind = "streak" -> StreakValid(geo)
      [] geo.kind = "pipe" -> PipeValid(geo)
      [] OTHER -> TRUE

\* C19: for every image height and width and every draw, the geometry an
\* effect has drawn is valid.
C19_GeometryValid == epc = "masks" => GeoValid

\* C19, amended: the geometry is valid for every image whose height and
\* width are both at least 20 pixels.
C19_GeometryValidFromTwenty ==
    (epc = "masks" /\ Min(hh, ww) >= 20) => GeoValid

\* C19 witness: on an image of 20 by 100 pixels point_source drew the
\* smallest scale, which gives the radius 1, and the centre on the side.
C19_Witness ==
    /\ epc = "masks" /\ efn = "point_source"
    /\ hh = 20 /\ ww = 100
    /\ geo.radius_x = 1 /\ geo.radius_y > 1
    /\ geo.yc = geo.radius_y

-----------------------------------------------------------------------------
(* Claims about the output paths and the round trip                        *)

\* C21: within one call of noise_helper two different input images are
\* never written to the same output path.
C21_DistinctImagesDistinctPaths ==
    \A i, j \in DOMAIN written :
       written[i].im # written[j].im => written[i].path # written[j].path

\* the first removal after the generation has returned
Removed == npc = "returned" /\ rpc = "done" /\ runs = 1

\* the directories the tasks of the generation created
CreatedDirs ==
    UNION {tasks[q].dirsTouched \ nbefore.dirs : q \in DOMAIN tasks}
\* the directories the removal deleted, each named by its top
DeletedDirs ==
    {d \in rbefore.dirs \ dirs : SubSeq(d, 1, Len(d) - 1) \in dirs}

\* the images the tasks opened are originals, not the output of a run
InputsAreOriginals ==
    \A q \in DOMAIN tasks :
       \A c \in Range(tasks[q].drawn) :
          LET k == <<nd.data_root \o <<q>>, c[3]>>
          IN  k \in DOMAIN nbefore.fs /\ nbefore.fs[k].noise = "none"

\* C22: after a generation with camera noise only and write root equal to
\* data root, the removal deletes the directories the generation created
\* and leaves the tree as it was before the generation; and no task of a
\* generation opens an image that a run has written.
C22_GenerateRemoveRestoresTree ==
    /\ Removed =>
          /\ DeletedDirs = CreatedDirs
          /\ dirs = nbefore.dirs
          /\ fs = nbefore.fs
    /\ npc \in {"dispatch", "returned"} => InputsAreOriginals

\* C22, amended: the removal deletes the directories the generation created
\* together with the camera-noise directories the subjects held before it,
\* and leaves the tree as it was before the generation without those; the
\* tree is the one before the generation when it held none. No task of a
\* generation opens an image that a run has written.
C22_GenerateRemoveRestoresCleanTree ==
    /\ Removed =>
          LET old == {d \in nbefore.dirs : InCameraDirAt(2, d)}
          IN  /\ DeletedDirs = CreatedDirs \cup old
              /\ dirs = nbefore.dirs \ old
              /\ DOMAIN fs = {k \in DOMAIN nbefore.fs : k[1] \notin old}
              /\ \A k \in DOMAIN fs : fs[k] = nbefore.fs[k]
              /\ old = {} => (dirs = nbefore.dirs /\ fs = nbefore.fs)
    /\ npc \in {"dispatch", "returned"} => InputsAreOriginals

\* C22 witness: on a tree without earlier output the task of s1 wrote a
\* noisy image, the removal has returned and the tree is the one before
\* the generation.
C22_Witness ==
    /\ Removed
    /\ \E c \in Range(tasks["s1"].drawn) : c[2] = "returned"
    /\ CreatedDirs # {}
    /\ \A d \in nbefore.dirs : ~InCameraDirAt(2, d)
    /\ dirs = nbefore.dirs /\ fs = nbefore.fs

====
